---- MODULE Spec2Model ----
(***************************************************************************)
(* Model of the segment / schedule / merge pipeline of run_yolo_docker.py. *)
(*                                                                         *)
(* A path is a triple <<base, s, e>>: <<"a", 0, 0>> is the input video a,  *)
(* <<"segment", s, e>> is run_yolo11_segments/segment_<s>_<e>.mp4.  The    *)
(* same triple names the files derived from the stem of that video: its    *)
(* coordinate artifact, its rendered output and its pose directory.        *)
(***************************************************************************)
EXTENDS Integers, Sequences, FiniteSets, TLC

\* ------------------------------------------------------------------ bounds
MaxWorkers == 2      \* largest --workers value of a pipeline run
MaxFrames == 3       \* largest probed frame count of a pipeline run
MaxRuns == 2         \* invocations of main() on the same disk
MaxLabels == 1       \* label files one container writes at most
MaxPlanFrames == 12  \* largest frame_count handed to compute_segments alone
MaxPlanWorkers == 5  \* largest worker_count handed to compute_segments alone
MaxMergeFrames == 13 \* largest frame_count of a plan whose files are merged
MaxMergeWorkers == 3 \* largest worker_count of a plan whose files are merged
MaxPoseDirs == 3     \* pose directories on disk when the pose merge runs alone
MaxProbeFrames == 3  \* largest nb_frames ffprobe reports
DurationSteps == 4   \* durations are multiples of 1/DurationSteps seconds
MaxDuration == 6     \* longest duration, in those steps
MaxFpsNum == 3       \* largest numerator of avg_frame_rate
MaxFpsDen == 2       \* largest denominator of avg_frame_rate

DefaultFps == 30     \* probe_video, line 159

Names == {"a", "b"}
VideoLists == {<<"a">>, <<"a", "b">>, <<"a", "a">>}

VARIABLES
    \* command line (parse_args), the same for every invocation
    videos, req_workers, pose, custom, frames, present,
    \* files on disk, kept across invocations
    clips, coords, labels, combined,
    \* one invocation of main()
    run, pc, workers, segments, segIdx, created, job_videos, idx,
    status, slot, concurrency, vidIdx,
    \* observations of the invocation (not read by the program)
    clipsAtStart, coordsAtStart, combinedAtStart, ffmpegCalls, ffmpegFailed,
    prevCreated, wrote, writes,
    \* compute_segments applied on its own
    plan_frames, plan_workers, plan_out, plan_done,
    \* combine_coordinate_files applied on its own: the coordinate files on
    \* disk, the list handed over, the lines written
    merge_disk, merge_in, merge_out, merge_done,
    \* --profile: the option, the nvidia-smi process, its log handle, and
    \* whether the interpreter has run its exit hooks
    profile, sampler, handle, exited,
    \* probe_video applied on its own: the stream entry ffprobe printed, the
    \* result
    probe_in, probe_out, probe_done

argVars == <<videos, req_workers, pose, custom, frames, present>>
diskVars == <<clips, coords, labels, combined>>
runVars == <<run, pc, workers, segments, segIdx, created, job_videos, idx,
             status, slot, concurrency, vidIdx>>
obsVars == <<clipsAtStart, coordsAtStart, combinedAtStart, ffmpegCalls,
             ffmpegFailed, prevCreated, wrote, writes>>
planVars == <<plan_frames, plan_workers, plan_out, plan_done>>
mergeVars == <<merge_disk, merge_in, merge_out, merge_done>>
profVars == <<profile, sampler, handle, exited>>
probeVars == <<probe_in, probe_out, probe_done>>
sideVars == <<planVars, mergeVars, profVars, probeVars>>
vars == <<argVars, diskVars, runVars, obsVars, planVars, mergeVars, profVars,
          probeVars>>

Min(a, b) == IF a < b THEN a ELSE b
Max(a, b) == IF a > b THEN a ELSE b

\* ------------------------------------------------------- compute_segments
per_chunk_floor(frame_count, worker_count) ==
    Max(1, frame_count \div worker_count)

per_chunk(frame_count, worker_count) ==
    Max(1, (frame_count \div worker_count)
           + (IF frame_count % worker_count # 0 THEN 1 ELSE 0))

RECURSIVE segment_loop(_, _, _, _)
segment_loop(start, frame_count, chunk, acc) ==
    IF start < frame_count
    THEN LET end == Min(frame_count - 1, start + chunk - 1)
             count == end - start + 1
         IN segment_loop(end + 1, frame_count, chunk,
                         Append(acc, <<start, end, count>>))
    ELSE acc

compute_segments(frame_count, worker_count) ==
    segment_loop(0, frame_count, per_chunk(frame_count, worker_count), <<>>)


\* ------------------------------------------------------------ probe_video
\* numbers with a fraction are pairs <<numerator, denominator>>

\* parse_fps: num/den, 0.0 for a zero denominator or a text float() rejects
parse_fps(value) ==
    IF value.text = "frac" /\ value.den # 0 THEN <<value.num, value.den>> ELSE <<0, 1>>

\* probe_video, lines 153-166: the frame count and rate of the first video
\* stream; ok = FALSE stands for the SystemExit
probe_video(stream) ==
    LET duration == stream.duration
        nb_frames == stream.nb_frames
        fps_raw == IF stream.avg_frame_rate.text = "none"
                   THEN [text |-> "frac", num |-> 0, den |-> 1]
                   ELSE stream.avg_frame_rate
        parsed == parse_fps(fps_raw)
        fps == IF parsed[1] = 0 THEN <<DefaultFps, 1>> ELSE parsed
    IN IF nb_frames.text = "digits" /\ nb_frames.value # 0
       THEN [ok |-> TRUE, frames |-> nb_frames.value, fps |-> fps]
       ELSE IF duration[1] > 0
       THEN [ok |-> TRUE,
             frames |-> Max(1, (duration[1] * fps[1]) \div (duration[2] * fps[2])),
             fps |-> fps]
       ELSE [ok |-> FALSE, frames |-> 0, fps |-> <<0, 1>>]

\* ------------------------------------------------------------------ paths
SegIds == (0 .. MaxFrames - 1) \X (0 .. MaxFrames - 1)
VideoPath(name) == <<name, 0, 0>>
ClipPath(seg) == <<"segment", seg[1], seg[2]>>
CustomCoords == <<"custom", 0, 0>>
Stems == {VideoPath(n) : n \in Names} \cup {ClipPath(id) : id \in SegIds}
IsSegment(path) == path[1] = "segment"

\* main, line 333: one input video and more than one worker
Segmented == Len(videos) = 1 /\ req_workers > 1

\* get_model_tag: "pose" under --pose, otherwise the model stem or "detect"
get_model_tag == IF pose THEN "pose" ELSE "detect"

\* main, lines 360-364: the coordinate artifact of a job
coords_host(video) == IF custom THEN CustomCoords ELSE video

\* run_job, line 283: the rendered output of a job, named after the video stem
out_path(video) == <<video, get_model_tag>>

\* main, line 357 / create_segment_files, line 235: Path.exists()
ClipExistsNever(id) == FALSE
ClipExists(id) == clips[id] # 0

video_exists(video) ==
    IF IsSegment(video) THEN ClipExists(<<video[2], video[3]>>)
    ELSE video[1] \in present

\* main, line 365: coords_host.exists()
coords_exists_never(path) == FALSE
coords_exists(path) == path \in coords

\* ---------------------------------------------------------------- names
\* file and directory names are strings, kept as sequences of character codes
SegmentPrefix == <<115, 101, 103, 109, 101, 110, 116, 95>>
PoseSuffix == <<95, 112, 111, 115, 101>>
CoordsSuffix == <<95, 100, 101, 116, 101, 99, 116, 95, 99, 111, 111, 114, 100,
                  115, 46, 116, 120, 116>>

\* str(int) of a non-negative integer
RECURSIVE Digits(_)
Digits(n) == IF n < 10 THEN <<48 + n>> ELSE Digits(n \div 10) \o <<48 + (n % 10)>>

\* create_segment_files, line 203: the stem segment_<start>_<end> of a clip
stem_name(path) ==
    IF IsSegment(path)
    THEN SegmentPrefix \o Digits(path[2]) \o <<95>> \o Digits(path[3])
    ELSE IF path[1] = "a" THEN <<97>> ELSE <<98>>

\* run_job / collect_pose_dirs, line 439: <stem>_pose
pose_dir_name(path) == stem_name(path) \o PoseSuffix

\* main, line 363: <stem>_<model_tag>_coords.txt
coords_name(path) == stem_name(path) \o CoordsSuffix

IsDigit(c) == 48 <= c /\ c <= 57

\* the length of the run of digits of s that starts at position i
RECURSIVE digit_run(_, _)
digit_run(s, i) ==
    IF i <= Len(s) /\ IsDigit(s[i]) THEN 1 + digit_run(s, i + 1) ELSE 0

\* int() of a string of digits
RECURSIVE to_int(_)
to_int(s) ==
    IF s = <<>> THEN 0 ELSE 10 * to_int(SubSeq(s, 1, Len(s) - 1)) + (s[Len(s)] - 48)

ends_with(s, suffix) ==
    Len(s) >= Len(suffix)
    /\ SubSeq(s, Len(s) - Len(suffix) + 1, Len(s)) = suffix

\* the match of segment_(\d+)_(\d+) with its first character at position p:
\* <<matched, group 1, group 2, position after the match>>
segment_match_at(s, p) ==
    LET d1 == p + Len(SegmentPrefix)
        n1 == digit_run(s, d1)
        us == d1 + n1
        d2 == us + 1
        n2 == digit_run(s, d2)
    IN IF /\ p + Len(SegmentPrefix) - 1 <= Len(s)
          /\ SubSeq(s, p, p + Len(SegmentPrefix) - 1) = SegmentPrefix
          /\ n1 >= 1
          /\ us <= Len(s)
          /\ s[us] = 95
          /\ n2 >= 1
       THEN <<TRUE, to_int(SubSeq(s, d1, us - 1)), to_int(SubSeq(s, d2, d2 + n2 - 1)),
              d2 + n2>>
       ELSE <<FALSE, 0, 0, 0>>

\* ---------------------------------------------------- structured merge
\* segment_start_offset: SEGMENT_DIR_RE.match on the name without _pose; the
\* start of segment_<s>_<e>, 0 for any other name
segment_start_offset(pose_dir) ==
    LET name == pose_dir_name(pose_dir)
        base_name == IF ends_with(name, PoseSuffix)
                     THEN SubSeq(name, 1, Len(name) - Len(PoseSuffix))
                     ELSE name
        m == segment_match_at(base_name, 1)
    IN IF m[1] /\ m[4] = Len(base_name) + 1 THEN m[2] ELSE 0

\* read_pose_entries, lines 493-499: a line whose tokens are all floats; a
\* blank line or a line with another token gives no entry
parseable_always(payload) == TRUE
parseable(payload) == payload \notin {"", "bad"}

\* read_pose_entries, lines 490-501: the entries of one label file, in line
\* order
label_file_entries(pose_dir, frame_index, file_lines) ==
    LET abs_frame == segment_start_offset(pose_dir) + frame_index
        all == [k \in 1 .. Len(file_lines) |->
                   [frame |-> abs_frame, dir |-> pose_dir, file |-> frame_index,
                    line |-> k, by |-> file_lines[k]]]
    IN SelectSeq(all, LAMBDA en : parseable(en.by))

\* read_pose_entries: label files in ascending local frame, each read line by
\* line
RECURSIVE read_label_files(_, _)
read_label_files(pose_dir, i) ==
    IF i > Len(labels[pose_dir]) THEN <<>>
    ELSE label_file_entries(pose_dir, i - 1, labels[pose_dir][i])
         \o read_label_files(pose_dir, i + 1)

read_pose_entries(pose_dir) == read_label_files(pose_dir, 1)

\* the orders sorted(key=start) can give to the directories iterdir() lists
RECURSIVE sorted_dirs(_)
sorted_dirs(S) ==
    IF S = {} THEN {<<>>}
    ELSE LET lowest == {d \in S : \A o \in S :
                            segment_start_offset(d) <= segment_start_offset(o)}
         IN UNION {{<<d>> \o rest : rest \in sorted_dirs(S \ {d})} : d \in lowest}

\* collect_pose_dirs: the segment directories, then the video's own directory
\* with offset 0, stably sorted by start offset
collect_pose_dirs(video, segment_root) ==
    LET seg_dirs == IF segment_root
                    THEN {d \in Stems : IsSegment(d) /\ labels[d] # <<>>}
                    ELSE {}
        default_dir == VideoPath(video)
        with_default(seq) ==
            IF labels[default_dir] = <<>> THEN seq
            ELSE SelectSeq(seq, LAMBDA d : segment_start_offset(d) <= 0)
                 \o <<default_dir>>
                 \o SelectSeq(seq, LAMBDA d : segment_start_offset(d) > 0)
    IN {with_default(seq) : seq \in sorted_dirs(seg_dirs)}

RECURSIVE concat_entries(_)
concat_entries(dirs) ==
    IF dirs = <<>> THEN <<>>
    ELSE read_pose_entries(Head(dirs)) \o concat_entries(Tail(dirs))

\* entries.sort(key=frame): stable
unsorted_entries(entries) == entries

RECURSIVE sort_from(_, _, _)
sort_from(entries, f, last) ==
    IF f > last THEN <<>>
    ELSE SelectSeq(entries, LAMBDA en : en.frame = f) \o sort_from(entries, f + 1, last)

sort_by_frame(entries) ==
    IF entries = <<>> THEN <<>>
    ELSE LET fr == {entries[i].frame : i \in DOMAIN entries}
         IN sort_from(entries, 0, CHOOSE m \in fr : \A x \in fr : x <= m)


\* ------------------------------------------------ combine_coordinate_files
\* Python's < on strings
RECURSIVE str_less(_, _)
str_less(a, b) ==
    IF a = <<>> THEN b # <<>>
    ELSE IF b = <<>> THEN FALSE
    ELSE IF a[1] # b[1] THEN a[1] < b[1]
    ELSE str_less(Tail(a), Tail(b))

\* sorted(coord_files), line 23
unsorted(coord_files) == coord_files

RECURSIVE sorted(_)
sorted(coord_files) ==
    IF coord_files = <<>> THEN <<>>
    ELSE LET i == CHOOSE i \in DOMAIN coord_files :
                    \A j \in DOMAIN coord_files :
                        /\ ~str_less(coord_files[j], coord_files[i])
                        /\ (j < i => str_less(coord_files[i], coord_files[j]))
         IN <<coord_files[i]>>
            \o sorted(SubSeq(coord_files, 1, i - 1)
                      \o SubSeq(coord_files, i + 1, Len(coord_files)))

\* parse_segment_filename: re.search finds the leftmost match of
\* segment_(\d+)_(\d+); <<FALSE, 0, 0>> stands for the ValueError
parse_segment_filename_swapped(filename) ==
    LET hits == {p \in DOMAIN filename : segment_match_at(filename, p)[1]}
    IN IF hits = {} THEN <<FALSE, 0, 0>>
       ELSE LET m == segment_match_at(filename, CHOOSE p \in hits : \A q \in hits : p <= q)
            IN <<TRUE, m[3], m[2]>>

parse_segment_filename(filename) ==
    LET hits == {p \in DOMAIN filename : segment_match_at(filename, p)[1]}
    IN IF hits = {} THEN <<FALSE, 0, 0>>
       ELSE LET m == segment_match_at(filename, CHOOSE p \in hits : \A q \in hits : p <= q)
            IN <<TRUE, m[2], m[3]>>

\* a line of a coordinate file: blank, a header starting with #, or a data
\* line with parts tab-separated fields whose field 0 is the integer frame
\* when isint holds; body is the rest of the line
BlankLine == [kind |-> "blank", parts |-> 1, isint |-> FALSE, frame |-> 0, body |-> <<>>]
HeaderLine(body) == [kind |-> "header", parts |-> 1, isint |-> FALSE, frame |-> 0, body |-> body]
DataLine(frame, body) == [kind |-> "data", parts |-> 7, isint |-> TRUE, frame |-> frame, body |-> body]

\* lines 47-51: a header line is kept while none has been written
keep_header_always(header_written) == TRUE
keep_header(header_written) == ~header_written

\* lines 54-66: a data line has 7 fields and int() accepts field 0
well_formed_any(line) == TRUE
well_formed(line) == line.parts = 7 /\ line.isint

\* combine_coordinate_files, lines 41-67: the loop over the lines of one file;
\* the result is <<combined_lines, header_written>>
RECURSIVE merge_lines(_, _, _, _)
merge_lines(lines, start_frame, combined_lines, header_written) ==
    IF lines = <<>> THEN <<combined_lines, header_written>>
    ELSE LET line == Head(lines)
             rest == Tail(lines)
         IN IF line.kind = "blank"
            THEN merge_lines(rest, start_frame, combined_lines, header_written)
            ELSE IF line.kind = "header"
            THEN merge_lines(rest, start_frame,
                             IF keep_header(header_written)
                             THEN Append(combined_lines, line)
                             ELSE combined_lines,
                             TRUE)
            ELSE IF ~well_formed(line)
            THEN merge_lines(rest, start_frame, combined_lines, header_written)
            ELSE merge_lines(rest, start_frame,
                             Append(combined_lines,
                                    [line EXCEPT !.frame = line.frame + start_frame]),
                             header_written)

\* lines 25-34: a file that does not exist, or whose name parse_segment_filename
\* rejects, is skipped
file_skipped_if_missing(coord_file) == coord_file \notin DOMAIN merge_disk
file_skipped(coord_file) ==
    coord_file \notin DOMAIN merge_disk \/ ~parse_segment_filename(coord_file)[1]

\* combine_coordinate_files, lines 23-67: the loop over the files
RECURSIVE merge_files(_, _, _)
merge_files(files, combined_lines, header_written) ==
    IF files = <<>> THEN <<combined_lines, header_written>>
    ELSE LET coord_file == Head(files)
             parsed == parse_segment_filename(coord_file)
         IN IF file_skipped(coord_file)
            THEN merge_files(Tail(files), combined_lines, header_written)
            ELSE LET r == merge_lines(merge_disk[coord_file], parsed[2],
                                      combined_lines, header_written)
                 IN merge_files(Tail(files), r[1], r[2])

\* combine_coordinate_files: the lines joined into the output file
combine_coordinate_files(coord_files) ==
    merge_files(sorted(coord_files), <<>>, FALSE)[1]


\* ------------------------------------------------------------ initial state
NoJobs == <<>>

PlanIdle ==
    /\ plan_frames = 0
    /\ plan_workers = 0
    /\ plan_out = <<>>
    /\ plan_done = FALSE

ProfileIdle ==
    /\ sampler = "none"
    /\ handle = "none"
    /\ exited = FALSE

NoStream == [nb_frames |-> [text |-> "none", value |-> 0],
             duration |-> <<0, 1>>,
             avg_frame_rate |-> [text |-> "none", num |-> 0, den |-> 1]]
NoResult == [ok |-> FALSE, frames |-> 0, fps |-> <<0, 1>>]

ProbeIdle ==
    /\ probe_in = NoStream
    /\ probe_out = NoResult
    /\ probe_done = FALSE

MergeIdle ==
    /\ merge_disk = <<>>
    /\ merge_in = <<>>
    /\ merge_out = <<>>
    /\ merge_done = FALSE

FreshRunAt(at) ==
    /\ pc = at
    /\ workers = req_workers
    /\ segments = <<>>
    /\ segIdx = 1
    /\ created = <<>>
    /\ job_videos = <<>>
    /\ idx = 1
    /\ status = NoJobs
    /\ slot = NoJobs
    /\ concurrency = 0
    /\ vidIdx = 1
    /\ ffmpegCalls = {}
    /\ ffmpegFailed = {}
    /\ wrote = NoJobs
    /\ writes = [n \in Names |-> 0]

FreshRun == FreshRunAt("start")

InitWith(profiles) ==
    /\ videos \in VideoLists
    /\ req_workers \in 0 .. MaxWorkers
    /\ pose \in BOOLEAN
    /\ custom \in BOOLEAN
    /\ present \in SUBSET {videos[i] : i \in DOMAIN videos}
    /\ frames \in IF Segmented THEN 0 .. MaxFrames ELSE {0}
    /\ clips = [id \in SegIds |-> 0]
    /\ coords = {}
    /\ labels = [d \in Stems |-> <<>>]
    /\ combined = [n \in Names |-> <<>>]
    /\ run = 1
    /\ FreshRun
    /\ clipsAtStart = clips
    /\ coordsAtStart = coords
    /\ combinedAtStart = combined
    /\ prevCreated = <<>>
    /\ PlanIdle
    /\ MergeIdle
    /\ ProbeIdle
    /\ profile \in profiles
    /\ ProfileIdle

Init == InitWith({"off"})

\* ------------------------------------------------------------------ main
\* start_profile, lines 103-119: Popen of nvidia-smi under --profile
start_sampler_never(p, s) == s
start_sampler(p, s) == IF p = "on" THEN "running" ELSE s

\* main, lines 343-355: the sampler is started, then the pool and the job
\* table are set up; without nvidia-smi start_profile raises SystemExit
OpenPool(jobs, nworkers) ==
    IF profile = "no_smi"
    THEN /\ pc' = "aborted"
         /\ UNCHANGED <<job_videos, workers, concurrency, status, slot, wrote,
                        idx, sampler, handle>>
    ELSE /\ sampler' = start_sampler(profile, sampler)
         /\ handle' = IF profile = "on" THEN "open" ELSE handle
         /\ job_videos' = jobs
         /\ workers' = nworkers
         /\ concurrency' = Min(nworkers, Len(jobs))
         /\ status' = [j \in 1 .. Len(jobs) |-> "new"]
         /\ slot' = [j \in 1 .. Len(jobs) |-> 0]
         /\ wrote' = [j \in 1 .. Len(jobs) |-> 0]
         /\ idx' = 1
         /\ pc' = "submit"

\* main, line 325: the worker count is rejected
workers_invalid_never(w) == FALSE
workers_invalid(w) == w < 1

\* probe_video, lines 160-165: no frame count, SystemExit; the probed count is
\* frames, and frames = 0 stands for a stream with neither nb_frames nor a
\* positive duration
probe_fails == frames = 0

\* main, lines 322-341: argument check, then segmentation or the plain job list
Start ==
    /\ pc = "start"
    /\ IF workers_invalid(req_workers)
       THEN /\ pc' = "aborted"
            /\ UNCHANGED <<workers, segments, job_videos, idx, status, slot,
                           concurrency, wrote, sampler, handle>>
       ELSE IF Segmented
       THEN IF videos[1] \notin present \/ probe_fails
            THEN \* ffprobe exits non-zero and subprocess.run(check=True)
                 \* raises, or probe_video raises SystemExit
                 /\ pc' = "aborted"
                 /\ UNCHANGED <<workers, segments, job_videos, idx, status,
                                slot, concurrency, wrote, sampler, handle>>
            ELSE /\ segments' = compute_segments(frames, req_workers)
                 /\ pc' = "materialize"
                 /\ UNCHANGED <<workers, job_videos, idx, status, slot,
                                concurrency, wrote, sampler, handle>>
       ELSE /\ OpenPool([i \in 1 .. Len(videos) |-> VideoPath(videos[i])],
                        req_workers)
            /\ UNCHANGED segments
    /\ UNCHANGED <<argVars, diskVars, run, segIdx, created, vidIdx,
                   clipsAtStart, coordsAtStart, combinedAtStart, ffmpegCalls,
                   ffmpegFailed, prevCreated, writes, planVars, mergeVars,
                   probeVars, profile, exited>>


\* ------------------------------------------------- create_segment_files
\* line 248: after a failed transcode the loop goes on with the next segment
AfterFfmpegFailureBreak(i, n) == n + 1
AfterFfmpegFailure(i, n) == i + 1

\* lines 244-247: whatever a failed ffmpeg left at the target path is unlinked
partial_left(disk, id) == [disk EXCEPT ![id] = run]
partial_removed(disk, id) == [disk EXCEPT ![id] = 0]

\* create_segment_files, lines 202-251: one iteration of the loop
Materialize ==
    /\ pc = "materialize"
    /\ segIdx <= Len(segments)
    /\ LET seg == segments[segIdx]
           id == <<seg[1], seg[2]>>
       IN IF ClipExists(id)
          THEN \* lines 235-238: reuse the existing export
               /\ created' = Append(created, ClipPath(id))
               /\ segIdx' = segIdx + 1
               /\ UNCHANGED <<clips, ffmpegCalls, ffmpegFailed>>
          ELSE \* lines 239-251: run ffmpeg; a failed run leaves no clip
               /\ ffmpegCalls' = ffmpegCalls \cup {id}
               /\ \E ok \in BOOLEAN :
                    IF ok
                    THEN /\ clips' = [clips EXCEPT ![id] = run]
                         /\ created' = Append(created, ClipPath(id))
                         /\ segIdx' = segIdx + 1
                         /\ UNCHANGED ffmpegFailed
                    ELSE /\ clips' = partial_removed(clips, id)
                         /\ ffmpegFailed' = ffmpegFailed \cup {id}
                         /\ segIdx' = AfterFfmpegFailure(segIdx, Len(segments))
                         /\ UNCHANGED created
    /\ UNCHANGED <<argVars, coords, labels, combined, run, pc, workers,
                   segments, job_videos, idx, status, slot, concurrency,
                   vidIdx, clipsAtStart, coordsAtStart, combinedAtStart,
                   prevCreated, wrote, writes, sideVars>>

\* main, lines 337-341: the created clips become the jobs, workers are capped
MaterializeDone ==
    /\ pc = "materialize"
    /\ segIdx > Len(segments)
    /\ IF created = <<>>
       THEN /\ pc' = "aborted"
            /\ UNCHANGED <<workers, job_videos, idx, status, slot,
                           concurrency, wrote, sampler, handle>>
       ELSE OpenPool(created, Min(workers, Len(created)))
    /\ UNCHANGED <<argVars, diskVars, run, segments, segIdx, created, vidIdx,
                   clipsAtStart, coordsAtStart, combinedAtStart, ffmpegCalls,
                   ffmpegFailed, prevCreated, writes, planVars, mergeVars,
                   probeVars, profile, exited>>

\* ------------------------------------------------------------- scheduler
Active == {"pending", "running"}
Submitted == {"pending", "running", "succeeded", "failed"}
Running == {j \in DOMAIN status : status[j] = "running"}

\* main, lines 357-382: what the submit loop does with one video
submit_always(video) ==
    IF ~video_exists(video) THEN "missing" ELSE "pending"
submit_decision(video) ==
    IF ~video_exists(video) THEN "missing"
    ELSE IF coords_exists(coords_host(video)) THEN "skipped"
    ELSE "pending"

\* main, lines 356-382: one iteration of the submit loop
Submit ==
    /\ pc = "submit"
    /\ idx <= Len(job_videos)
    /\ status' = [status EXCEPT ![idx] = submit_decision(job_videos[idx])]
    /\ idx' = idx + 1
    /\ UNCHANGED <<argVars, diskVars, run, pc, workers, segments, segIdx,
                   created, job_videos, slot, concurrency, vidIdx, obsVars,
                   sideVars>>

\* ThreadPoolExecutor(max_workers=concurrency), line 355: a thread is free
SlotFreeOneMore == Cardinality(Running) <= concurrency
SlotFree == Cardinality(Running) < concurrency

FreeSlots == (1 .. Len(job_videos)) \ {slot[j] : j \in Running}

\* a pool thread takes the oldest queued work item and enters run_job
StartJob(j) ==
    /\ pc \in {"submit", "unwinding"}
    /\ status[j] = "pending"
    /\ \A k \in DOMAIN status : status[k] = "pending" => j <= k
    /\ SlotFree
    /\ status' = [status EXCEPT ![j] = "running"]
    /\ slot' = [slot EXCEPT ![j] = CHOOSE t \in FreeSlots : \A u \in FreeSlots : t <= u]
    /\ UNCHANGED <<argVars, diskVars, run, pc, workers, segments, segIdx,
                   created, job_videos, idx, concurrency, vidIdx, obsVars,
                   sideVars>>

\* what the container did to the label files of its pose directory: the first
\* k files are (re)written with one line each, later ones of an earlier run
\* stay
write_labels(old, k, tag) ==
    [i \in 1 .. Max(k, Len(old)) |-> IF i <= k THEN <<tag>> ELSE old[i]]

LabelLimit(video) ==
    IF IsSegment(video) THEN Min(video[3] - video[2] + 1, MaxLabels) ELSE MaxLabels

\* main, lines 383-385: a raised job is reported, nothing else happens to the
\* other futures
AfterFailureCancel(st, j) ==
    [k \in DOMAIN st |-> IF k = j THEN "failed"
                         ELSE IF st[k] = "pending" THEN "cancelled" ELSE st[k]]
AfterFailure(st, j) == [st EXCEPT ![j] = "failed"]

\* run_job, lines 301-319: run_container returns or raises
FinishJob(j) ==
    /\ status[j] = "running"
    /\ LET video == job_videos[j]
           path == coords_host(video)
       IN \E ok \in BOOLEAN, k \in 0 .. LabelLimit(video),
             left \in {"written", "untouched", "removed"} :
            /\ ok => k >= 1 /\ left = "written"
            /\ labels' = [labels EXCEPT ![video] = write_labels(@, k, IF ok THEN "succeeded" ELSE "failed")]
            /\ wrote' = [wrote EXCEPT ![j] = k]
            /\ coords' = CASE left = "written" -> coords \cup {path}
                           [] left = "untouched" -> coords
                           [] left = "removed" -> coords \ {path}
            /\ status' = IF ok THEN [status EXCEPT ![j] = "succeeded"]
                         ELSE AfterFailure(status, j)
    /\ slot' = [slot EXCEPT ![j] = 0]
    /\ UNCHANGED <<argVars, clips, combined, run, pc, workers, segments,
                   segIdx, created, job_videos, idx, concurrency, vidIdx,
                   clipsAtStart, coordsAtStart, combinedAtStart, ffmpegCalls,
                   ffmpegFailed, prevCreated, writes, sideVars>>

\* main, lines 383-387: as_completed is exhausted and the pool shuts down
PoolDrainedOnSuccess ==
    \A j \in DOMAIN status : status[j] \notin Active \cup {"failed"}
PoolDrained == \A j \in DOMAIN status : status[j] \notin Active

ExitPool ==
    /\ pc = "submit"
    /\ idx > Len(job_videos)
    /\ PoolDrained
    /\ pc' = IF pose THEN "combine" ELSE "done"
    /\ UNCHANGED <<argVars, diskVars, run, workers, segments, segIdx, created,
                   job_videos, idx, status, slot, concurrency, vidIdx, obsVars,
                   sideVars>>

\* -------------------------------------------------- combine_pose_outputs
\* combine_pose_outputs, lines 400-422: one iteration of the loop over videos
Combine ==
    /\ pc = "combine"
    /\ vidIdx <= Len(videos)
    /\ LET video == videos[vidIdx]
       IN \E pose_dirs \in collect_pose_dirs(video, Segmented) :
            LET entries == concat_entries(pose_dirs)
            IN IF entries = <<>>
               THEN UNCHANGED <<combined, writes>>
               ELSE /\ combined' = [combined EXCEPT ![video] = sort_by_frame(entries)]
                    /\ writes' = [writes EXCEPT ![video] = @ + 1]
    /\ vidIdx' = vidIdx + 1
    /\ pc' = IF vidIdx = Len(videos) THEN "done" ELSE "combine"
    /\ UNCHANGED <<argVars, clips, coords, labels, run, workers, segments,
                   segIdx, created, job_videos, idx, status, slot, concurrency,
                   clipsAtStart, coordsAtStart, combinedAtStart, ffmpegCalls,
                   ffmpegFailed, prevCreated, wrote, sideVars>>

\* the command is invoked again on the files the last invocation left
Rerun ==
    /\ pc \in {"done", "aborted"}
    /\ run < MaxRuns
    /\ UNCHANGED <<argVars, diskVars, sideVars>>
    /\ run' = run + 1
    /\ pc' = "start"
    /\ workers' = req_workers
    /\ segments' = <<>>
    /\ segIdx' = 1
    /\ created' = <<>>
    /\ job_videos' = <<>>
    /\ idx' = 1
    /\ status' = NoJobs
    /\ slot' = NoJobs
    /\ concurrency' = 0
    /\ vidIdx' = 1
    /\ ffmpegCalls' = {}
    /\ ffmpegFailed' = {}
    /\ wrote' = NoJobs
    /\ writes' = [n \in Names |-> 0]
    /\ clipsAtStart' = clips
    /\ coordsAtStart' = coords
    /\ combinedAtStart' = combined
    /\ prevCreated' = created

Next ==
    \/ Start
    \/ Materialize
    \/ MaterializeDone
    \/ Submit
    \/ \E j \in DOMAIN status : StartJob(j)
    \/ \E j \in DOMAIN status : FinishJob(j)
    \/ ExitPool
    \/ Combine
    \/ Rerun

Spec == Init /\ [][Next]_vars


\* ------------------------------------------- one invocation, scheduled fairly
RunNext ==
    \/ Start
    \/ Materialize
    \/ MaterializeDone
    \/ Submit
    \/ \E j \in DOMAIN status : StartJob(j)
    \/ \E j \in DOMAIN status : FinishJob(j)
    \/ ExitPool
    \/ Combine

\* the main thread goes on with its loop, a free pool thread takes queued
\* work, and every container invocation returns or raises
SpecLive ==
    /\ Init
    /\ [][RunNext]_vars
    /\ WF_vars(Submit)
    /\ WF_vars(\E j \in DOMAIN status : StartJob(j))
    /\ WF_vars(\E j \in DOMAIN status : FinishJob(j))
    /\ WF_vars(ExitPool)


\* ------------------------------------------------------ a run under --profile
\* stop_profile, lines 124-129: a live process is sent terminate and killed
\* when it has not gone after 5 seconds; one that is gone is left alone
stop_outcomes_none(s) == {s}
stop_outcomes(s) == IF s = "running" THEN {"terminated", "killed"} ELSE {s}

\* stop_profile, lines 122-131
stop_profile ==
    /\ sampler' \in stop_outcomes(sampler)
    /\ handle' = IF handle = "open" THEN "closed" ELSE handle

\* an exception leaves the submit loop: the with block waits for the pool
\* (lines 355-385) before it lets the exception go on
CrashScheduling ==
    /\ pc = "submit"
    /\ idx <= Len(job_videos)
    /\ pc' = "unwinding"
    /\ UNCHANGED <<argVars, diskVars, run, workers, segments, segIdx, created,
                   job_videos, idx, status, slot, concurrency, vidIdx, obsVars,
                   sideVars>>

Unwound ==
    /\ pc = "unwinding"
    /\ PoolDrained
    /\ pc' = "crashed"
    /\ UNCHANGED <<argVars, diskVars, run, workers, segments, segIdx, created,
                   job_videos, idx, status, slot, concurrency, vidIdx, obsVars,
                   sideVars>>

\* an exception leaves combine_pose_outputs (lines 415-420) before the file of
\* the video is written
CrashCombine ==
    /\ pc = "combine"
    /\ pc' = "crashed"
    /\ UNCHANGED <<argVars, diskVars, run, workers, segments, segIdx, created,
                   job_videos, idx, status, slot, concurrency, vidIdx, obsVars,
                   sideVars>>

\* main, lines 390-391: the explicit stop at the end of main
StopProfile ==
    /\ pc = "done"
    /\ pc' = "returned"
    /\ IF sampler # "none" THEN stop_profile ELSE UNCHANGED <<sampler, handle>>
    /\ UNCHANGED <<argVars, diskVars, run, workers, segments, segIdx, created,
                   job_videos, idx, status, slot, concurrency, vidIdx, obsVars,
                   planVars, mergeVars, probeVars, profile, exited>>

\* interpreter exit: the hook registered at line 346, if any, calls
\* stop_profile
AtExit ==
    /\ pc \in {"returned", "crashed", "aborted"}
    /\ ~exited
    /\ exited' = TRUE
    /\ IF handle # "none" THEN stop_profile ELSE UNCHANGED <<sampler, handle>>
    /\ UNCHANGED <<argVars, diskVars, runVars, obsVars, planVars, mergeVars,
                   probeVars, profile>>

ProfileInit == InitWith({"on", "no_smi"})

ProfileNext ==
    \/ Start
    \/ Materialize
    \/ MaterializeDone
    \/ Submit
    \/ \E j \in DOMAIN status : StartJob(j)
    \/ \E j \in DOMAIN status : FinishJob(j)
    \/ ExitPool
    \/ Combine
    \/ CrashScheduling
    \/ Unwound
    \/ CrashCombine
    \/ StopProfile
    \/ AtExit

SpecProfile == ProfileInit /\ [][ProfileNext]_vars


\* ------------------------------------- compute_segments applied on its own
PipelineIdle ==
    /\ videos = <<"a">>
    /\ req_workers = 1
    /\ pose = FALSE
    /\ custom = FALSE
    /\ present = {"a"}
    /\ frames = 0
    /\ clips = [id \in SegIds |-> 0]
    /\ coords = {}
    /\ labels = [d \in Stems |-> <<>>]
    /\ combined = [n \in Names |-> <<>>]
    /\ run = 1
    /\ FreshRun
    /\ clipsAtStart = clips
    /\ coordsAtStart = coords
    /\ combinedAtStart = combined
    /\ prevCreated = <<>>
    /\ profile = "off"
    /\ ProfileIdle

PlanInit ==
    /\ plan_frames \in (1 .. MaxPlanFrames) \cup {100}
    /\ plan_workers \in 1 .. MaxPlanWorkers
    /\ plan_out = <<>>
    /\ plan_done = FALSE
    /\ PipelineIdle
    /\ MergeIdle
    /\ ProbeIdle

\* compute_segments, lines 187-195, on the probed frame count
PlanSegments ==
    /\ ~plan_done
    /\ plan_out' = compute_segments(plan_frames, plan_workers)
    /\ plan_done' = TRUE
    /\ UNCHANGED <<plan_frames, plan_workers, argVars, diskVars, runVars, obsVars,
                   mergeVars, profVars, probeVars>>

PlanNext == PlanSegments

SpecPlan == PlanInit /\ [][PlanNext]_vars


\* ------------------------------------------ probe_video applied on its own
\* the stream entries ffprobe can print: nb_frames absent, "N/A" or digits,
\* a duration or none, avg_frame_rate absent, num/den, or other text
Streams ==
    [nb_frames : {[text |-> "none", value |-> 0], [text |-> "N/A", value |-> 0]}
                 \cup {[text |-> "digits", value |-> n] : n \in 0 .. MaxProbeFrames},
     duration : {<<d, DurationSteps>> : d \in 0 .. MaxDuration},
     avg_frame_rate : {[text |-> "none", num |-> 0, den |-> 1],
                       [text |-> "bad", num |-> 0, den |-> 1]}
                      \cup {[text |-> "frac", num |-> n, den |-> d] :
                               n \in 0 .. MaxFpsNum, d \in 0 .. MaxFpsDen}]

ProbeInit ==
    /\ probe_in \in Streams
    /\ probe_out = NoResult
    /\ probe_done = FALSE
    /\ PipelineIdle
    /\ PlanIdle
    /\ MergeIdle

\* compute_segments, line 186
ProbeVideo ==
    /\ ~probe_done
    /\ probe_out' = probe_video(probe_in)
    /\ probe_done' = TRUE
    /\ UNCHANGED <<probe_in, argVars, diskVars, runVars, obsVars, planVars,
                   mergeVars, profVars>>

ProbeNext == ProbeVideo

SpecProbe == ProbeInit /\ [][ProbeNext]_vars


\* --------------------------------------- the two merges applied on their own
HeaderModes == {"none", "first", "last", "all", "twice"}
Defects == {"none", "blank", "short", "long", "nonint", "missing", "unnamed"}

\* a file name without segment_<start>_<end>: coords.txt
UnnamedFile == <<99, 111, 111, 114, 100, 115, 46, 116, 120, 116>>

\* a line that is not a well-formed data line
defect_line(defect, seg) ==
    CASE defect = "blank" -> BlankLine
      [] defect = "short" -> [DataLine(0, <<seg[1], seg[2], -1>>) EXCEPT !.parts = 6]
      [] defect = "long" -> [DataLine(0, <<seg[1], seg[2], -1>>) EXCEPT !.parts = 8]
      [] OTHER -> [DataLine(0, <<seg[1], seg[2], -1>>) EXCEPT !.isint = FALSE]

\* the coordinate file of one segment of a plan: a header or none, then one
\* data line per frame of the clip, numbered from 0; under "twice" a second
\* header, and in the defective file a defect line, follow the first data line
segment_file(plan, i, mode, defect, at) ==
    LET seg == plan[i]
        has_header == \/ mode \in {"all", "twice"}
                      \/ (mode = "first" /\ i = 1)
                      \/ (mode = "last" /\ i = Len(plan))
        data == [l \in 1 .. seg[3] |-> DataLine(l - 1, <<seg[1], seg[2], l - 1>>)]
        second == IF mode = "twice" THEN <<HeaderLine(<<seg[1], seg[2], -1>>)>> ELSE <<>>
        bad == IF i = at /\ defect \in {"blank", "short", "long", "nonint"}
               THEN <<defect_line(defect, seg)>> ELSE <<>>
    IN (IF has_header THEN <<HeaderLine(<<seg[1], seg[2]>>)>> ELSE <<>>)
       \o <<data[1]>> \o second \o bad \o Tail(data)

unnamed_file == <<HeaderLine(<<-1, -1>>), DataLine(0, <<-1, -1, 0>>)>>

\* combine_coords.py is handed the coordinate files of one segment plan, one
\* of them possibly defective or missing, or with a file of another name
LineInit ==
    /\ \E frame_count \in 1 .. MaxMergeFrames, worker_count \in 1 .. MaxMergeWorkers,
          mode \in HeaderModes, reversed \in BOOLEAN, defect \in Defects :
         LET plan == compute_segments(frame_count, worker_count)
             name(i) == coords_name(ClipPath(plan[i]))
             n == Len(plan)
         IN \E at \in IF defect = "none" THEN {1} ELSE 1 .. n :
              LET on_disk == {name(i) : i \in (1 .. n) \ (IF defect = "missing" THEN {at} ELSE {})}
                  given == [i \in 1 .. n |-> IF reversed THEN name(n + 1 - i) ELSE name(i)]
              IN /\ merge_disk =
                      [f \in on_disk \cup (IF defect = "unnamed" THEN {UnnamedFile} ELSE {}) |->
                          IF f = UnnamedFile THEN unnamed_file
                          ELSE segment_file(plan, CHOOSE i \in 1 .. n : name(i) = f,
                                            mode, defect, at)]
                 /\ merge_in = IF defect = "unnamed"
                               THEN (IF reversed THEN given \o <<UnnamedFile>>
                                     ELSE <<UnnamedFile>> \o given)
                               ELSE given
    /\ merge_out = <<>>
    /\ merge_done = FALSE
    /\ PipelineIdle
    /\ PlanIdle
    /\ ProbeIdle

\* combine_coords.py main, line 83
MergeLines ==
    /\ merge_in # <<>>
    /\ ~merge_done
    /\ merge_out' = combine_coordinate_files(merge_in)
    /\ merge_done' = TRUE
    /\ UNCHANGED <<merge_disk, merge_in, argVars, diskVars, runVars, obsVars,
                   planVars, profVars, probeVars>>

\* the pose directories earlier invocations can have left next to the videos
\* and in the segment directory, for a three-frame video cut for 1, 2 or 3
\* workers
PoseDirs == {VideoPath("a"), VideoPath("b"), ClipPath(<<0, 0>>), ClipPath(<<0, 1>>),
             ClipPath(<<1, 1>>), ClipPath(<<2, 2>>)}
LabelShapes == {<<<<"p">>>>,
                <<<<"p", "q">>, <<"q">>>>,
                <<<<"bad">>>>,
                <<<<"q">>, <<"bad", "p">>>>}
StaleArtifact(n) ==
    <<[frame |-> 0, dir |-> VideoPath(n), file |-> 0, line |-> 1, by |-> "old"]>>

\* main, line 387: the jobs are over and combine_pose_outputs is entered
PoseInit ==
    /\ videos \in {<<"a">>, <<"a", "b">>}
    /\ req_workers \in 1 .. 2
    /\ pose = TRUE
    /\ custom = FALSE
    /\ present = {}
    /\ frames = 0
    /\ clips = [id \in SegIds |-> 0]
    /\ coords = {}
    /\ \E dirs \in {D \in SUBSET PoseDirs : Cardinality(D) <= MaxPoseDirs} :
         \E content \in [dirs -> LabelShapes] :
            labels = [d \in Stems |-> IF d \in dirs THEN content[d] ELSE <<>>]
    /\ \E stale \in BOOLEAN :
         combined = [n \in Names |-> IF stale THEN StaleArtifact(n) ELSE <<>>]
    /\ run = 1
    /\ FreshRunAt("combine")
    /\ clipsAtStart = clips
    /\ coordsAtStart = coords
    /\ combinedAtStart = combined
    /\ prevCreated = <<>>
    /\ PlanIdle
    /\ MergeIdle
    /\ ProbeIdle
    /\ profile = "off"
    /\ ProfileIdle

MergeInit == LineInit \/ PoseInit

MergeNext == MergeLines \/ Combine

SpecMerge == MergeInit /\ [][MergeNext]_vars


\* ================================================================= claims
SegId(i) == <<segments[i][1], segments[i][2]>>
PassComplete == segments # <<>> /\ segIdx > Len(segments)
Range(seq) == {seq[i] : i \in DOMAIN seq}
Holds(seg, f) == seg[1] <= f /\ f <= seg[2]

\* C1: for frame_count >= 1 and worker_count >= 1 the plan of compute_segments
\* starts at 0, each segment starts right after the previous one ends, no two
\* segments overlap, every frame 0..frame_count-1 lies in exactly one segment
\* and no segment reaches past frame_count-1, and there are at most
\* worker_count segments.
C1_SegmentsPartition ==
    plan_done =>
        /\ Len(plan_out) >= 1
        /\ plan_out[1][1] = 0
        /\ \A i \in 2 .. Len(plan_out) : plan_out[i][1] = plan_out[i - 1][2] + 1
        /\ \A i, j \in DOMAIN plan_out :
              i # j => (plan_out[i][2] < plan_out[j][1] \/ plan_out[j][2] < plan_out[i][1])
        /\ \A f \in 0 .. plan_frames - 1 :
              Cardinality({i \in DOMAIN plan_out : Holds(plan_out[i], f)}) = 1
        /\ \A i \in DOMAIN plan_out :
              0 <= plan_out[i][1] /\ plan_out[i][1] <= plan_out[i][2]
              /\ plan_out[i][2] <= plan_frames - 1
        /\ Len(plan_out) <= plan_workers

C1_Witness ==
    /\ plan_done
    /\ plan_frames = 10
    /\ plan_workers = 3
    /\ Len(plan_out) = 3
    /\ plan_out[3] = <<8, 9, 2>>

\* C2: a job whose coordinate artifact exists at the moment the submit loop
\* reaches it (and whose video exists) becomes skipped, and a skipped job stays
\* skipped for the rest of the invocation: it is never queued, never holds a
\* pool slot and never runs.
C2_ExistingCoordsSkipped ==
    [][\A j \in DOMAIN status :
          run' = run =>
            /\ (/\ status[j] = "new"
                /\ status'[j] # "new"
                /\ video_exists(job_videos[j])
                /\ coords_host(job_videos[j]) \in coords) => status'[j] = "skipped"
            /\ status[j] = "skipped" => (status'[j] = "skipped" /\ slot'[j] = 0)
            /\ status[j] = "skipped" => slot[j] = 0]_vars

C2_Witness ==
    /\ pc = "submit"
    /\ \E j, k \in DOMAIN status :
          /\ status[j] = "skipped"
          /\ coords_host(job_videos[j]) \in coords
          /\ status[k] = "running"

\* the final artifact of the invocation's inputs existed when it started: the
\* combined json of every input video under --pose, the coordinate artifact of
\* every input video otherwise
FinalArtifactAtStart ==
    IF pose
    THEN \A i \in DOMAIN videos : combinedAtStart[videos[i]] # <<>>
    ELSE \A i \in DOMAIN videos : coords_host(VideoPath(videos[i])) \in coordsAtStart

\* C3 as stated: an invocation that starts with the final artifact present
\* submits no job.
C3_FinalArtifactZeroJobs ==
    (run >= 2 /\ FinalArtifactAtStart) =>
        \A j \in DOMAIN status : status[j] \notin Submitted

\* C3, amended: a job is submitted in an invocation only if its own coordinate
\* artifact was absent when the invocation started; so an invocation that
\* starts with the coordinate artifact of every job present submits no job.
C3_JobsOnlyWithoutCoords ==
    \A j \in DOMAIN status :
        status[j] \in Submitted => coords_host(job_videos[j]) \notin coordsAtStart

C3_Witness ==
    /\ run = 2
    /\ pc = "done"
    /\ pose
    /\ Segmented
    /\ Len(job_videos) >= 2
    /\ \A j \in DOMAIN status :
          status[j] = "skipped" /\ coords_host(job_videos[j]) \in coordsAtStart

\* the input video a job belongs to
SourceVideo(j) == IF Segmented THEN videos[1] ELSE videos[j]

MergedFrom(j, local) ==
    \E i \in DOMAIN combined[SourceVideo(j)] :
        LET en == combined[SourceVideo(j)][i]
        IN en.dir = job_videos[j]
           /\ en.frame = segment_start_offset(job_videos[j]) + local

\* C4: a step in which a running job fails changes the state of no other job;
\* when the pool has been left every submitted job is succeeded or failed; and
\* after aggregation every label file a succeeded job wrote is an entry of the
\* combined artifact of its video.
C4_FailureIsolated ==
    /\ [][\A j \in DOMAIN status :
             (run' = run /\ status[j] = "running" /\ status'[j] = "failed")
                => \A k \in DOMAIN status : k # j => (status'[k] = status[k] /\ slot'[k] = slot[k])]_vars
    /\ [](pc \in {"combine", "done"} =>
             \A j \in DOMAIN status :
                 status[j] \in {"succeeded", "failed", "skipped", "missing"})
    /\ []((pc = "done" /\ pose) =>
             \A j \in DOMAIN status :
                 status[j] = "succeeded" =>
                     \A local \in 0 .. wrote[j] - 1 : MergedFrom(j, local))

C4_Witness ==
    /\ pc = "done"
    /\ pose
    /\ \E j, k \in DOMAIN status :
          /\ j < k
          /\ status[j] = "failed"
          /\ status[k] = "succeeded"
          /\ wrote[k] >= 1
          /\ MergedFrom(k, 0)

\* C5 as stated: two jobs that are in the pool together never have the same
\* coordinate artifact path nor the same rendered output path.
C5_DistinctOutputPaths ==
    \A i, j \in DOMAIN status :
        (i # j /\ status[i] \in Active /\ status[j] \in Active) =>
            /\ coords_host(job_videos[i]) # coords_host(job_videos[j])
            /\ out_path(job_videos[i]) # out_path(job_videos[j])

\* C6: the running jobs are never more than min(requested workers, number of
\* jobs); under segmentation the worker count is capped to the number of
\* created clips; a job holds a pool slot exactly while it runs, and no two
\* running jobs hold the same slot.
C6_RunningWithinConcurrency ==
    /\ Cardinality(Running) <= Min(req_workers, Len(job_videos))
    /\ (Segmented /\ pc \in {"submit", "combine", "done"}) =>
          (workers = Min(req_workers, Len(created)) /\ job_videos = created)
    /\ \A j \in DOMAIN status :
          IF status[j] = "running"
          THEN slot[j] \in 1 .. Min(req_workers, Len(job_videos))
          ELSE slot[j] = 0
    /\ \A i, j \in Running : i # j => slot[i] # slot[j]

C6_Witness ==
    /\ Cardinality(Running) = concurrency
    /\ concurrency = 1
    /\ req_workers = 1
    /\ \E j \in DOMAIN status : status[j] = "pending"

\* C7 as stated: aggregation runs only when no job is pending or running, and
\* the combined artifact of a video is written at most once per invocation.
C7_AggregateAfterAllOnce ==
    /\ pc \in {"combine", "done"} =>
          \A j \in DOMAIN status : status[j] \notin Active
    /\ \A n \in Names : writes[n] <= 1

\* C8 as stated: no entry of a combined artifact comes from a label file
\* written by a job that ended failed.
C8_MergeOnlySuccessful ==
    \A n \in Names :
        \A i \in DOMAIN combined[n] : combined[n][i].by # "failed"

\* a clip that existed when the pass started is not transcoded, is left as it
\* was and is in the job list; a clip that was absent is transcoded
ReusePart ==
    \A i \in 1 .. Min(segIdx - 1, Len(segments)) :
        IF clipsAtStart[SegId(i)] # 0
        THEN /\ SegId(i) \notin ffmpegCalls
             /\ clips[SegId(i)] = clipsAtStart[SegId(i)]
             /\ ClipPath(SegId(i)) \in Range(created)
        ELSE SegId(i) \in ffmpegCalls

\* C9 as stated: existing clips are reused untouched, and a second pass over
\* the same plan returns the job list of the first and transcodes nothing.
C9_MaterializeIdempotent ==
    /\ ReusePart
    /\ (run >= 2 /\ PassComplete) => (created = prevCreated /\ ffmpegCalls = {})

\* C9, amended: existing clips are reused untouched, absent ones are
\* transcoded; a second pass over a plan whose clips were all materialized
\* returns the job list of the first pass and transcodes nothing.
C9_ReuseMaterialized ==
    /\ ReusePart
    /\ (/\ run >= 2
        /\ PassComplete
        /\ \A i \in DOMAIN segments : clipsAtStart[SegId(i)] # 0)
          => (created = prevCreated /\ ffmpegCalls = {})

C9_Witness ==
    /\ run = 2
    /\ PassComplete
    /\ Len(segments) >= 2
    /\ \A i \in DOMAIN segments : clipsAtStart[SegId(i)] # 0
    /\ created = prevCreated
    /\ ffmpegCalls = {}

\* C10: when the pass is complete every segment of the plan was transcoded or
\* reused, the job list holds exactly the segments whose transcode did not
\* fail, in plan order, which is ascending start offset.
C10_FailedSegmentDropped ==
    PassComplete =>
        /\ \A i \in DOMAIN segments :
              SegId(i) \in ffmpegCalls \/ clipsAtStart[SegId(i)] # 0
        /\ created = SelectSeq([i \in DOMAIN segments |-> ClipPath(SegId(i))],
                               LAMBDA p : <<p[2], p[3]>> \notin ffmpegFailed)
        /\ \A i \in 2 .. Len(created) : created[i - 1][2] < created[i][2]

C10_Witness ==
    /\ PassComplete
    /\ Len(segments) >= 2
    /\ SegId(1) \in ffmpegFailed
    /\ created = <<ClipPath(SegId(2))>>


\* a fatal condition of the invocation: the worker count is below 1, the
\* frame count cannot be determined, or no segment could be materialized
Fatal ==
    \/ req_workers < 1
    \/ (Segmented /\ frames = 0 /\ pc # "start")
    \/ (Segmented /\ PassComplete /\ created = <<>>)

\* C11: once a fatal condition has occurred the invocation is aborted or about
\* to abort: no job was or is ever submitted or run, no pool exists, and no
\* combined artifact, coordinate artifact or label file is written.
C11_FatalBeforeScheduling ==
    Fatal =>
        /\ pc \in {"start", "materialize", "aborted"}
        /\ status = NoJobs
        /\ job_videos = <<>>
        /\ concurrency = 0
        /\ \A n \in Names : writes[n] = 0
        /\ combined = combinedAtStart
        /\ coords = coordsAtStart

C11_Witness ==
    /\ pc = "aborted"
    /\ Segmented
    /\ Len(segments) >= 2
    /\ PassComplete
    /\ created = <<>>
    /\ ffmpegFailed # {}

\* C20: for frame_count = 100 and worker_count = 3 the plan is [0,33] with 34
\* frames, [34,67] with 34 frames and [68,99] with 32 frames.
C20_Plan100By3 ==
    (plan_done /\ plan_frames = 100 /\ plan_workers = 3) =>
        plan_out = <<<<0, 33, 34>>, <<34, 67, 34>>, <<68, 99, 32>>>>

C20_Witness ==
    /\ plan_done
    /\ plan_frames = 100
    /\ plan_workers = 3
    /\ Len(plan_out) = 3

\* C12: the content combine_coordinate_files writes does not depend on the
\* order of the paths it is handed: every permutation of the list gives the
\* lines that were written.
C12_OrderIndependent ==
    merge_done =>
        \A f \in Permutations(DOMAIN merge_in) :
            combine_coordinate_files([i \in DOMAIN merge_in |-> merge_in[f[i]]])
                = merge_out

C12_Witness ==
    /\ merge_done
    /\ Len(merge_in) = 3
    /\ str_less(merge_in[2], merge_in[1])
    /\ Len(merge_out) > 3
    /\ merge_out[1].kind = "header"

\* the inputs are the files of one plan, all on disk, with headers and
\* 7-field data lines only
PlanFilesOnly ==
    \A i \in DOMAIN merge_in :
        /\ merge_in[i] \in DOMAIN merge_disk
        /\ merge_in[i] # UnnamedFile
        /\ \A k \in DOMAIN merge_disk[merge_in[i]] :
              LET line == merge_disk[merge_in[i]][k]
              IN line.kind = "header" \/ (line.kind = "data" /\ line.parts = 7 /\ line.isint)

\* C13: when the inputs are the files of one segment plan, the data lines of
\* the merged artifact are in non-decreasing frame order.
C13_LinesInFrameOrder ==
    (merge_done /\ PlanFilesOnly) =>
        \A i, j \in DOMAIN merge_out :
            (i < j /\ merge_out[i].kind = "data" /\ merge_out[j].kind = "data")
                => merge_out[i].frame <= merge_out[j].frame

StartOf(dir) == IF IsSegment(dir) THEN dir[2] ELSE 0

\* C14: the combined pose artifact lists its entries in non-decreasing
\* absolute frame; entries of one frame come in ascending start offset of
\* their directory, and the entries of one label file keep their line order.
C14_PoseOrderStable ==
    \A n \in Names : \A i, j \in DOMAIN combined[n] :
        i < j =>
            LET x == combined[n][i]
                y == combined[n][j]
            IN /\ x.frame <= y.frame
               /\ x.frame = y.frame =>
                    /\ StartOf(x.dir) <= StartOf(y.dir)
                    /\ (x.dir = y.dir /\ x.file = y.file) => x.line < y.line

C14_Witness ==
    /\ writes["a"] = 1
    /\ \E i, j \in DOMAIN combined["a"] :
          /\ i < j
          /\ combined["a"][i].frame = combined["a"][j].frame
          /\ StartOf(combined["a"][i].dir) < StartOf(combined["a"][j].dir)
    /\ \E i, j \in DOMAIN combined["a"] :
          /\ i < j
          /\ combined["a"][i].dir = combined["a"][j].dir
          /\ combined["a"][i].file = combined["a"][j].file
    /\ \E i, j \in DOMAIN combined["a"] :
          \* read after the segment directory, listed before its later frame
          /\ i < j
          /\ combined["a"][i].dir = VideoPath("a")
          /\ IsSegment(combined["a"][j].dir)
          /\ StartOf(combined["a"][j].dir) = 0
          /\ combined["a"][i].frame < combined["a"][j].frame

DataLinesOut == {i \in DOMAIN merge_out : merge_out[i].kind = "data"}

Artifact(entries) ==
    [i \in DOMAIN entries |-> [frame |-> entries[i].frame, pose |-> entries[i].by]]

\* C16: for the label files on disk, the artifact combine_pose_outputs wrote
\* for a video is the one every order of listing the directories gives.
C16_EnumerationIndependent ==
    \A n \in Names :
        writes[n] >= 1 =>
            \A pose_dirs \in collect_pose_dirs(n, Segmented) :
                Artifact(combined[n]) = Artifact(sort_by_frame(concat_entries(pose_dirs)))

\* no label file of the video's directories holds a line of numbers
NoPoseEntry(n) ==
    \A d \in {VideoPath(n)} \cup (IF Segmented THEN {x \in Stems : IsSegment(x)} ELSE {}) :
        \A i \in DOMAIN labels[d] : \A k \in DOMAIN labels[d][i] :
            labels[d][i][k] \in {"", "bad"}

\* C19: a video with no pose entry in any of its directories gets no combined
\* artifact, an existing one is left as it was, and the videos after it are
\* still combined.
C19_NoEntriesNoArtifact ==
    \A i \in DOMAIN videos :
        LET n == videos[i]
        IN /\ NoPoseEntry(n) => (combined[n] = combinedAtStart[n] /\ writes[n] = 0)
           /\ (pc = "done" /\ ~NoPoseEntry(n)) => writes[n] >= 1

C19_Witness ==
    /\ pc = "done"
    /\ videos = <<"a", "b">>
    /\ labels[VideoPath("a")] = <<<<"bad">>>>
    /\ combined["a"] = StaleArtifact("a")
    /\ writes["a"] = 0
    /\ writes["b"] = 1

\* C17: under --profile the sampler has been started before any job is
\* submitted, it is running whenever a job is queued or running, and it is
\* stopped only when no submitted job is left unfinished, whatever the jobs'
\* outcomes.
C17_SamplerCoversJobs ==
    profile = "on" =>
        /\ (\E j \in DOMAIN status : status[j] # "new") => sampler # "none"
        /\ (\E j \in DOMAIN status : status[j] \in Active) => sampler = "running"
        /\ sampler \in {"terminated", "killed"} =>
              \A j \in DOMAIN status : status[j] \notin Active

C17_Witness ==
    /\ profile = "on"
    /\ sampler = "running"
    /\ \E j \in DOMAIN status : status[j] = "running"
    /\ \E j \in DOMAIN status : status[j] = "failed"

SamplerStopped == sampler \in {"terminated", "killed"} /\ handle = "closed"

\* C18: once the sampler has been started, the process has not exited (after
\* main returned, or after an exception left scheduling or aggregation)
\* without the sampler terminated or killed and its log handle closed, and the
\* exit hook that follows the explicit stop changes nothing.
C18_SamplerStoppedAtExit ==
    /\ [](exited /\ sampler # "none" => SamplerStopped)
    /\ [][(pc = "returned" /\ exited') => (sampler' = sampler /\ handle' = handle)]_vars

C18_Witness ==
    /\ pc = "returned"
    /\ exited
    /\ sampler = "killed"
    /\ handle = "closed"

Terminal == {"succeeded", "failed", "skipped", "missing"}

\* the moves of one job's status within an invocation
Forward(old, new) ==
    \/ new = old
    \/ (old = "new" /\ new \in {"pending", "skipped", "missing"})
    \/ (old = "pending" /\ new = "running")
    \/ (old = "running" /\ new \in {"succeeded", "failed"})

\* C21: within an invocation a job's status only moves forward: from not yet
\* considered to queued, skipped or missing, from queued to running, from
\* running to succeeded or failed; a finished or skipped job never changes
\* again, so it is never run a second time and a skipped job never runs.
C21_StatusForward ==
    [][\A j \in DOMAIN status \cap DOMAIN status' :
          /\ Forward(status[j], status'[j])
          /\ status[j] \in Terminal => status'[j] = status[j]]_vars

C21_Witness ==
    /\ Len(job_videos) = 2
    /\ status[1] = "skipped"
    /\ status[2] = "failed"
    /\ run = 2
    /\ pc = "done"

Unfinished == {"new", "pending", "running"}

\* C22: when every container invocation returns or raises, a run that has
\* opened the pool leaves it, with every job finished, skipped or missing
\* whatever the outcomes, and goes on to the aggregation step of main (the
\* pose merge under --pose); it never leaves the pool otherwise.
C22_SchedulerTerminates ==
    /\ (pc = "submit") ~>
          (pc \in {"combine", "done"} /\ \A j \in DOMAIN status : status[j] \notin Unfinished)
    /\ [][(pc = "submit" /\ pc' # "submit") =>
             /\ pc' = IF pose THEN "combine" ELSE "done"
             /\ \A j \in DOMAIN status : status[j] \notin Unfinished]_vars

C22_Witness ==
    /\ pc = "combine"
    /\ Len(job_videos) = 2
    /\ status[1] = "failed"
    /\ status[2] = "succeeded"

\* ceil(frame_count / worker_count), for frame_count >= 1
CeilDiv(a, b) == CHOOSE c \in 1 .. a : c * b >= a /\ (c - 1) * b < a

\* C23: with chunk_size = ceil(frame_count / worker_count) every segment but
\* the last has chunk_size frames, the last has between 1 and chunk_size, no
\* segment is empty, and each recorded count is end - start + 1.
C23_ChunkSizes ==
    plan_done =>
        LET chunk_size == CeilDiv(plan_frames, plan_workers)
            n == Len(plan_out)
        IN /\ n >= 1
           /\ \A i \in 1 .. n - 1 : plan_out[i][3] = chunk_size
           /\ 1 <= plan_out[n][3]
           /\ plan_out[n][3] <= chunk_size
           /\ \A i \in 1 .. n : plan_out[i][3] = plan_out[i][2] - plan_out[i][1] + 1

C23_Witness ==
    /\ plan_done
    /\ plan_frames = 10
    /\ plan_workers = 4
    /\ Len(plan_out) = 4
    /\ plan_out[4][3] = 1

HeadersOut == {i \in DOMAIN merge_out : merge_out[i].kind = "header"}

\* the files the merge reads, and those of them that hold a header line
Processed == {f \in Range(merge_in) : f \in DOMAIN merge_disk /\ f # UnnamedFile}
WithHeader == {f \in Processed : \E k \in DOMAIN merge_disk[f] : merge_disk[f][k].kind = "header"}

\* the first header line of the first file, in string order, that has one
FirstHeader ==
    LET f == CHOOSE f \in WithHeader : \A g \in WithHeader : ~str_less(g, f)
        k == CHOOSE k \in DOMAIN merge_disk[f] :
                /\ merge_disk[f][k].kind = "header"
                /\ \A m \in 1 .. k - 1 : merge_disk[f][m].kind # "header"
    IN merge_disk[f][k]

\* C24: the merged output has at most one header line; when a file that is
\* read has a header, the one kept is the first header line met in sorted file
\* order, and every later header line of that or another file is left out.
C24_OneHeader ==
    merge_done =>
        /\ Cardinality(HeadersOut) <= 1
        /\ WithHeader # {} =>
              \E i \in HeadersOut : merge_out[i] = FirstHeader
        /\ WithHeader = {} => HeadersOut = {}

C24_Witness ==
    /\ merge_done
    /\ Cardinality(WithHeader) = 3
    /\ \E f \in WithHeader :
          Cardinality({k \in DOMAIN merge_disk[f] : merge_disk[f][k].kind = "header"}) = 2
    /\ UnnamedFile \in DOMAIN merge_disk
    /\ Cardinality(HeadersOut) = 1

OutWithBody(body) == {i \in DataLinesOut : merge_out[i].body = body}

\* C25: of a file that is read, a data line without exactly 7 fields or with a
\* non-integer field 0 gives no output line, and every well-formed data line,
\* before and after it, is written exactly once with its other fields as they
\* were and field 0 raised by the start of the file's segment.
C25_MalformedDropped ==
    merge_done =>
        \A f \in Processed : \A k \in DOMAIN merge_disk[f] :
            LET line == merge_disk[f][k]
            IN line.kind = "data" =>
                 IF line.parts = 7 /\ line.isint
                 THEN /\ Cardinality(OutWithBody(line.body)) = 1
                      /\ \A i \in OutWithBody(line.body) :
                            /\ merge_out[i].frame = line.frame + line.body[1]
                            /\ merge_out[i].parts = 7
                 ELSE OutWithBody(line.body) = {}

C25_Witness ==
    /\ merge_done
    /\ \E f \in Processed : \E k \in DOMAIN merge_disk[f] :
          /\ merge_disk[f][k].kind = "data"
          /\ ~merge_disk[f][k].isint
          /\ k > 1
          /\ k < Len(merge_disk[f])
          /\ merge_disk[f][k - 1].kind = "data"
          /\ merge_disk[f][k + 1].kind = "data"
          /\ OutWithBody(merge_disk[f][k + 1].body) # {}
          /\ merge_disk[f][k].body[1] > 0

FromUnnamed(line) == line.body[1] = -1

\* C26: an input file that is missing, or whose name holds no
\* segment_<start>_<end>, is skipped as a whole: no header or data line of it
\* is written, and every well-formed data line of the other files is.
C26_BadFileSkipped ==
    merge_done =>
        /\ \A i \in DOMAIN merge_out : ~FromUnnamed(merge_out[i])
        /\ \A f \in Processed : \A k \in DOMAIN merge_disk[f] :
              LET line == merge_disk[f][k]
              IN (line.kind = "data" /\ line.parts = 7 /\ line.isint)
                    => OutWithBody(line.body) # {}
        /\ \A i \in DOMAIN merge_out :
              \E f \in Processed : \E k \in DOMAIN merge_disk[f] :
                  merge_disk[f][k].body = merge_out[i].body

C26_Witness ==
    /\ merge_done
    /\ UnnamedFile \in DOMAIN merge_disk
    /\ merge_in[1] = UnnamedFile
    /\ Cardinality(Processed) = 3
    /\ HeadersOut = {}
    /\ Len(merge_out) = 13

\* C30: a header line kept in the merged output is its first line; no data
\* line comes before it.
C30_HeaderFirst ==
    merge_done => \A i \in HeadersOut : i = 1

\* ceil(a / b) for a >= 0 and b > 0
Ceil(a, b) == (a + b - 1) \div b

\* the rate the claim names: 30 when avg_frame_rate is unset, unreadable, zero
\* or has a zero denominator
ClaimedRate ==
    LET r == probe_in.avg_frame_rate
    IN IF r.text # "frac" \/ r.den = 0 \/ r.num = 0 THEN <<DefaultFps, 1>> ELSE <<r.num, r.den>>

\* C27: the probe returns a usable nb_frames when there is one; otherwise, for
\* a positive duration, ceil(duration * frame_rate), at least 1; with
\* neither, it fails.
C27_ProbeCeil ==
    probe_done =>
        LET nb == probe_in.nb_frames
            d == probe_in.duration
        IN IF nb.text = "digits" /\ nb.value # 0
           THEN probe_out.ok /\ probe_out.frames = nb.value
           ELSE IF d[1] > 0
           THEN /\ probe_out.ok
                /\ probe_out.frames =
                      Max(1, Ceil(d[1] * ClaimedRate[1], d[2] * ClaimedRate[2]))
           ELSE ~probe_out.ok

\* C28: a job that failed has left nothing at its coordinate path (no other
\* job of the invocation writes that path), so the next invocation does not
\* skip it.
C28_FailedLeavesNoCoords ==
    \A j \in DOMAIN status :
        (/\ status[j] = "failed"
         /\ \A k \in DOMAIN status :
               k # j => coords_host(job_videos[k]) # coords_host(job_videos[j]))
            => ~coords_exists(coords_host(job_videos[j]))

\* C29: a segment whose transcode failed has no clip at its target path, and
\* every path in the job list of create_segment_files is a clip on disk and
\* not one that failed; a later invocation runs ffmpeg again for every segment
\* that has no clip when it starts.
C29_FailedClipRemoved ==
    /\ \A id \in ffmpegFailed :
          /\ ~ClipExists(id)
          /\ ClipPath(id) \notin Range(created)
    /\ \A i \in DOMAIN created : clips[<<created[i][2], created[i][3]>>] # 0
    /\ PassComplete =>
          \A i \in DOMAIN segments :
              clipsAtStart[SegId(i)] = 0 => SegId(i) \in ffmpegCalls

C29_Witness ==
    /\ run = 2
    /\ PassComplete
    /\ prevCreated # <<>>
    /\ \E i \in DOMAIN segments :
          /\ ClipPath(SegId(i)) \notin Range(prevCreated)
          /\ clipsAtStart[SegId(i)] = 0
          /\ SegId(i) \in ffmpegCalls
          /\ clips[SegId(i)] = 2

=============================================================================
